---- MODULE Spec2Model ----
(***************************************************************************)
(* A model of porespy.dns.tortuosity (src/porespy/dns/__funcs__.py): one   *)
(* call of the function, statement group by statement group, on small      *)
(* binary images.  Floating-point values are exact rationals <<n, d>>;     *)
(* the IEEE results of a division by zero are the values Inf and NaN.      *)
(***************************************************************************)
EXTENDS Integers, Sequences, FiniteSets, TLC

\* ------------------------------------------------------------------ bounds
\* the largest number of voxels of an image
MaxVoxels == 6
\* the largest length of an image along one dimension
MaxDim == 3
\* the largest axis argument tried (the smallest is -1)
MaxAxis == 3

\* ------------------------------------------------------- rational numbers
RECURSIVE GCD(_, _)
GCD(a, b) == IF b = 0 THEN a ELSE GCD(b, a % b)

IAbs(n) == IF n < 0 THEN -n ELSE n

\* the rational n/d in lowest terms with a positive denominator
Rat(n, d) ==
    LET s == IF d < 0 THEN -1 ELSE 1
        g == GCD(IAbs(n), IAbs(d))
    IN  <<(s * n) \div g, (s * d) \div g>>

Zero == <<0, 1>>
One == <<1, 1>>
Inf == <<1, 0>>
NegInf == <<-1, 0>>
NaN == <<0, 0>>

IsFinite(a) == a[2] # 0

RAdd(a, b) == Rat(a[1] * b[2] + b[1] * a[2], a[2] * b[2])
RSub(a, b) == Rat(a[1] * b[2] - b[1] * a[2], a[2] * b[2])
RMul(a, b) == Rat(a[1] * b[1], a[2] * b[2])
RDiv(a, b) == Rat(a[1] * b[2], a[2] * b[1])
RNeg(a) == <<-a[1], a[2]>>
RAbs(a) == <<IAbs(a[1]), a[2]>>
RLe(a, b) == a[1] * b[2] <= b[1] * a[2]
RLt(a, b) == a[1] * b[2] < b[1] * a[2]
FromInt(n) == <<n, 1>>

\* numpy float64 division of finite values: x/0 is inf, -inf or nan
FDiv(a, b) ==
    IF b[1] # 0 THEN RDiv(a, b)
    ELSE IF a[1] > 0 THEN Inf
    ELSE IF a[1] < 0 THEN NegInf
    ELSE NaN

\* numpy float64 product, one factor possibly infinite
FMul(a, b) ==
    IF IsFinite(a) /\ IsFinite(b) THEN RMul(a, b)
    ELSE IF a = NaN \/ b = NaN \/ a[1] = 0 \/ b[1] = 0 THEN NaN
    ELSE IF (a[1] > 0) = (b[1] > 0) THEN Inf
    ELSE NegInf

RECURSIVE RSum(_, _)
\* the sum of f[x] over the finite set S
RSum(f, S) ==
    IF S = {} THEN Zero
    ELSE LET x == CHOOSE y \in S : TRUE
         IN  RAdd(f[x], RSum(f, S \ {x}))

\* numpy.allclose(a, b) on finite scalars: |a - b| <= atol + rtol * |b|,
\* atol = 1/AtolInv and rtol = 1/RtolInv
AtolInv == 100000000
RtolInv == 100000
AllClose(a, b) ==
    LET d == RAbs(RSub(a, b))
        m == RAbs(b)
    IN  d[1] * m[2] <=
            (d[2] * m[2] + (AtolInv \div RtolInv) * m[1] * d[2]) \div AtolInv

\* ------------------------------------------------------------------ images
RECURSIVE Prod(_, _)
\* the product of the first k entries of the shape s
Prod(s, k) == IF k = 0 THEN 1 ELSE Prod(s, k - 1) * s[k]

Size(s) == Prod(s, Len(s))

\* the shapes of the 2D and 3D images within the bounds
Shapes ==
    {s \in [1..2 -> 1..MaxDim] \cup [1..3 -> 1..MaxDim] : Size(s) <= MaxVoxels}

\* the index tuples (0-based) of an array of shape s
AllCoords(s) == {c \in [1..Len(s) -> 0..MaxDim] : \A k \in 1..Len(s) : c[k] < s[k]}

\* a boolean array: its shape and the set of its True entries
Images == UNION {[shape : {s}, vox : SUBSET AllCoords(s)] : s \in Shapes}

Ndim(image) == Len(image.shape)

RECURSIVE RavelTo(_, _, _)
RavelTo(c, s, k) == IF k = 0 THEN 0 ELSE RavelTo(c, s, k - 1) * s[k] + c[k]
\* the position of entry c in the flattened (C-order) array of shape s
Ravel(c, s) == RavelTo(c, s, Len(s))

\* the entry at position f of the flattened (C-order) array of shape s
Unravel(f, s) ==
    [k \in 1..Len(s) |-> (f \div (Size(s) \div Prod(s, k))) % s[k]]

\* a negative index counts from the end, as Python sequences index
WrapIndex(i, n) == IF i < 0 THEN i + n ELSE i

\* im.shape[axis]
ShapeAt(image, ax) == image.shape[WrapIndex(ax, Ndim(image)) + 1]

\* im.sum() / im.size of the image as given
OriginalPorosity(image) == Rat(Cardinality(image.vox), Size(image.shape))

\* the fraction of the False voxels instead of the True ones
EffectivePorosity_OfSolid(image) ==
    Rat(Size(image.shape) - Cardinality(image.vox), Size(image.shape))

\* im.sum() / im.size of the trimmed image
EffectivePorosity(image) == Rat(Cardinality(image.vox), Size(image.shape))

\* two index tuples that share a face
Adjacent(u, v) ==
    \E k \in DOMAIN u :
        /\ IAbs(u[k] - v[k]) = 1
        /\ \A j \in DOMAIN u : j # k => u[j] = v[j]

RECURSIVE Grow(_, _)
\* the entries of V joined to S by a chain of face-sharing entries of V
Grow(S, V) ==
    LET N == S \cup {v \in V : \E u \in S : Adjacent(u, v)}
    IN  IF N = S THEN S ELSE Grow(N, V)

\* trim_nonpercolating_paths(im, inlet_axis=ax, outlet_axis=ax) for ax in
\* 0..ndim-1: the True voxels joined to both the first and the last layer
\* along ax
TrimNonpercolatingPaths(image, ax) ==
    LET V == image.vox
        first == {v \in V : v[ax + 1] = 0}
        last == {v \in V : v[ax + 1] = image.shape[ax + 1] - 1}
    IN  [shape |-> image.shape, vox |-> Grow(first, V) \cap Grow(last, V)]

\* what the trimming can return: for an axis that is no dimension of the
\* image the routine either takes it as Python indexes or selects no face
\* and returns the image as it is
TrimOutcomes(image, ax) ==
    IF ax \in 0..(Ndim(image) - 1)
    THEN {TrimNonpercolatingPaths(image, ax)}
    ELSE {TrimNonpercolatingPaths(image, WrapIndex(ax, Ndim(image))), image}

\* -------------------------------------------------------------- the network
\* numpy.atleast_3d of a 2D or 3D shape, and of an index tuple
Shape3(s) == IF Len(s) = 2 THEN <<s[1], s[2], 1>> ELSE s
Coord3(c) == IF Len(c) = 2 THEN <<c[1], c[2], 0>> ELSE c

RECURSIVE SortedSeq(_)
\* the elements of a finite set of integers in increasing order
SortedSeq(S) ==
    IF S = {} THEN <<>>
    ELSE LET m == CHOOSE x \in S : \A y \in S : x <= y
         IN  <<m>> \o SortedSeq(S \ {m})

Spacing == 1

\* op.network.CubicTemplate(template=im, spacing=1): one pore per True voxel,
\* numbered in C order; pore.coords is (index + 0.5) * spacing in 3 columns,
\* pore.template_indices the voxel's flat index, throat.conns the pairs of
\* face-sharing pores
CubicTemplate(image) ==
    LET s3 == Shape3(image.shape)
        idx == SortedSeq({Ravel(Coord3(c), s3) : c \in image.vox})
        n == Len(idx)
        crd == [p \in 1..n |->
                   [k \in 1..3 |-> Rat((2 * Unravel(idx[p], s3)[k] + 1) * Spacing, 2)]]
    IN  [Np |-> n,
         coords |-> crd,
         template_indices |-> idx,
         conns |-> {t \in (1..n) \X (1..n) :
                       /\ t[1] < t[2]
                       /\ Adjacent(Unravel(idx[t[1]], s3), Unravel(idx[t[2]], s3))}]

Pores(network) == 1..network.Np

Neighbors(network, p) ==
    {q \in Pores(network) : <<p, q>> \in network.conns \/ <<q, p>> \in network.conns}

\* water['throat.diffusive_conductance'] = 1
Conductance == 1

\* net['pore.coords'][:, axis] <= 1
InletMask(network, ax) ==
    [p \in Pores(network) |-> RLe(network.coords[p][WrapIndex(ax, 3) + 1], One)]

\* net['pore.coords'][:, axis] >= im.shape[axis] - 1
OutletMask(network, image, ax) ==
    [p \in Pores(network) |->
        RLe(FromInt(ShapeAt(image, ax) - 1), network.coords[p][WrapIndex(ax, 3) + 1])]

C_in == 1
C_out == 0

\* fd.set_value_BC(pores=mask, values=v) on the boundary values so far (NaN
\* where none is set)
SetValueBC(bcs, mask, v) ==
    [p \in DOMAIN bcs |-> IF mask[p] THEN FromInt(v) ELSE bcs[p]]

\* ---------------------------------------------------------------- the solve
RECURSIVE GrowNet(_, _)
\* the pores joined to the pores S by throats
GrowNet(S, network) ==
    LET N == S \cup {q \in Pores(network) : \E p \in S : q \in Neighbors(network, p)}
    IN  IF N = S THEN S ELSE GrowNet(N, network)

\* the linear system has no unique solution: some pore is joined to no pore
\* that holds a boundary value
Singular(network, bcs) ==
    GrowNet({p \in Pores(network) : bcs[p] # NaN}, network) # Pores(network)

RECURSIVE Gauss(_, _, _)
\* the solution x of A x = b over the unknowns U, by elimination
Gauss(U, A, b) ==
    IF U = {} THEN [p \in {} |-> Zero]
    ELSE LET u == CHOOSE v \in U : A[v][v] # Zero
             R == U \ {u}
             A2 == [i \in R |-> [j \in R |->
                       RSub(A[i][j], RDiv(RMul(A[i][u], A[u][j]), A[u][u]))]]
             b2 == [i \in R |-> RSub(b[i], RDiv(RMul(A[i][u], b[u]), A[u][u]))]
             xR == Gauss(R, A2, b2)
             ax == [j \in R |-> RMul(A[u][j], xR[j])]
             xu == RDiv(RSub(b[u], RSum(ax, R)), A[u][u])
         IN  [p \in U |-> IF p = u THEN xu ELSE xR[p]]

\* the steady-state concentration: the boundary values where they are set,
\* and elsewhere the solution of sum_q g * (x_p - x_q) = 0 over the
\* neighbours q of each pore p
ExactSolution(network, bcs) ==
    LET U == {p \in Pores(network) : bcs[p] = NaN}
        A == [p \in U |-> [q \in U |->
                 IF p = q THEN FromInt(Conductance * Cardinality(Neighbors(network, p)))
                 ELSE IF q \in Neighbors(network, p) THEN FromInt(-Conductance)
                 ELSE Zero]]
        known == [p \in U |-> [q \in Pores(network) |->
                     IF q \in Neighbors(network, p) \ U
                     THEN RMul(FromInt(Conductance), bcs[q]) ELSE Zero]]
        b == [p \in U |-> RSum(known[p], Pores(network))]
        x == Gauss(U, A, b)
    IN  [p \in Pores(network) |-> IF p \in U THEN x[p] ELSE bcs[p]]

\* the error an iterative solver that stopped early leaves at one pore
Residual == <<1, 2>>

\* a solver that iterates (cg, pyamg) rather than factorises
Iterative(cfg) == cfg["solver_type"] = "cg" \/ cfg["solver_family"] = "pyamg"

\* what fd.run() can leave in fd['pore.concentration']: the solution, or
\* with an iterative solver a field that is off at one pore
SolverOutcomes(network, bcs, cfg) ==
    LET x == ExactSolution(network, bcs)
    IN  {x} \cup
        (IF Iterative(cfg)
         THEN {[x EXCEPT ![p] = RAdd(x[p], Residual)] : p \in Pores(network)}
         ELSE {})

\* fd.rate(pores=mask)[0]: the net flow leaving the pores of mask,
\* sum of g * (x_p - x_q) over their throats
Rate(network, x, mask) ==
    LET S == {p \in Pores(network) : mask[p]}
        perPore == [p \in S |->
                       RSum([q \in Neighbors(network, p) |->
                                RMul(FromInt(Conductance), RSub(x[p], x[q]))],
                            Neighbors(network, p))]
    IN  IF \E p \in Pores(network) : x[p] = NaN THEN NaN ELSE RSum(perPore, S)

\* the comparison left out: the flows always pass
RatesMatch_Always(r_out, r_in) == TRUE

\* the comparison without the sign change of the outlet flow
RatesMatch_NoNegation(r_out, r_in) ==
    /\ r_out # NaN
    /\ r_in # NaN
    /\ AllClose(r_out, r_in)

\* np.allclose(-rate_out, rate_in); nan is close to nothing
RatesMatch(r_out, r_in) ==
    /\ r_out # NaN
    /\ r_in # NaN
    /\ AllClose(RNeg(r_out), r_in)

\* ------------------------------------------------------------ the settings
Families == {"scipy", "pyamg"}
Types == {"spsolve", "cg"}
KeyValues == [solver_family |-> Families, solver_type |-> Types]

\* the keyword arguments a caller can give
KwargsChoices ==
    UNION {{kw \in [D -> Families \cup Types] : \A k \in D : kw[k] \in KeyValues[k]} :
              D \in SUBSET DOMAIN KeyValues}

\* fd.settings as the algorithm is made
DefaultSettings == [solver_family |-> "scipy", solver_type |-> "spsolve"]

\* settings.update(kw)
Update(cfg, kw) ==
    [k \in DOMAIN cfg \cup DOMAIN kw |-> IF k \in DOMAIN kw THEN kw[k] ELSE cfg[k]]

\* the settings the call leaves for the solve
SolverSettings(cfg, kw, pyamgFound) ==
    IF "solver_family" \in DOMAIN kw
    THEN Update(cfg, kw)
    ELSE LET s1 == [cfg EXCEPT !["solver_family"] = "scipy", !["solver_type"] = "cg"]
         IN  IF ~pyamgFound THEN [s1 EXCEPT !["solver_family"] = "pyamg"] ELSE s1

\* --------------------------------------------------------------- the result
\* the flux per length taken as A * L instead of A / L
EffectiveDiffusivity_TimesLength(r_in, image, ax) ==
    LET delta_C == FromInt(C_in - C_out)
        L == FromInt(ShapeAt(image, ax))
        A == RDiv(FromInt(Size(image.shape)), L)
        N_A == RMul(RMul(A, L), delta_C)
    IN  RDiv(r_in, N_A)

\* Deff = rate_in / (A / L * delta_C)
EffectiveDiffusivity(r_in, image, ax) ==
    LET delta_C == FromInt(C_in - C_out)
        L == FromInt(ShapeAt(image, ax))
        A == RDiv(FromInt(Size(image.shape)), L)
        N_A == RMul(RDiv(A, L), delta_C)
    IN  RDiv(r_in, N_A)

RECURSIVE RavelFortranFrom(_, _, _)
RavelFortranFrom(c, s, k) ==
    IF k > Len(s) THEN 0 ELSE RavelFortranFrom(c, s, k + 1) * s[k] + c[k]
\* the reshape in column-major order
Reshape_FortranOrder(flat, s) ==
    [shape |-> s, val |-> [c \in AllCoords(s) |-> flat[RavelFortranFrom(c, s, 1)]]]

\* np.reshape(flat, newshape=s): entry c of the array is flat[position of c]
Reshape(flat, s) == [shape |-> s, val |-> [c \in AllCoords(s) |-> flat[Ravel(c, s)]]]

\* conc = zeros(im.size); conc[net['pore.template_indices']] = x; reshaped
ConcentrationImage(image, network, x) ==
    LET at == [f \in 0..(Size(image.shape) - 1) |->
                  {p \in Pores(network) : network.template_indices[p] = f}]
        flat == [f \in 0..(Size(image.shape) - 1) |->
                    IF at[f] = {} THEN Zero ELSE x[CHOOSE p \in at[f] : TRUE]]
    IN  Reshape(flat, image.shape)

\* ------------------------------------------------------------------ state
VARIABLES
    pc,          \* where the call is
    trace,       \* the stages run so far, in order
    im0,         \* the argument im
    axis,        \* the argument axis
    return_im,   \* the argument return_im
    kwargs,      \* the keyword arguments
    pyamg,       \* importlib.util.find_spec("pyamg") is not None
    im,          \* im once rebound to the trimmed image
    eps0, eps,   \* the porosity before and after the trimming
    net,         \* the network
    inlets, outlets,  \* the boundary masks
    bc,          \* the algorithm's boundary values
    settings,    \* fd.settings
    conc,        \* fd['pore.concentration']
    rate_in, rate_out,
    result       \* <<>> until the call returns, then <<the named tuple>>

vars == <<pc, trace, im0, axis, return_im, kwargs, pyamg, im, eps0, eps, net,
          inlets, outlets, bc, settings, conc, rate_in, rate_out, result>>

NoNetwork == [Np |-> 0, coords |-> <<>>, template_indices |-> <<>>, conns |-> {}]

Axes == (-1)..MaxAxis

Init ==
    /\ im0 \in Images
    /\ axis \in Axes
    /\ pc = "validate"
    /\ trace = <<>>
    /\ return_im = FALSE
    /\ kwargs = <<>>
    /\ pyamg = FALSE
    /\ im = im0
    /\ eps0 = NaN
    /\ eps = NaN
    /\ net = NoNetwork
    /\ inlets = <<>>
    /\ outlets = <<>>
    /\ bc = <<>>
    /\ settings = DefaultSettings
    /\ conc = <<>>
    /\ rate_in = NaN
    /\ rate_out = NaN
    /\ result = <<>>

\* the axis check off by one: an axis equal to ndim passes
AxisTooHigh_OffByOne(ax, ndim) == ax > ndim

\* if axis > (im.ndim - 1)
AxisTooHigh(ax, ndim) == ax > ndim - 1

\* lines 39-40: the axis check
ValidateAxis ==
    /\ pc = "validate"
    /\ trace' = Append(trace, "validate")
    /\ pc' = IF AxisTooHigh(axis, Ndim(im)) THEN "error_axis" ELSE "trim"
    /\ UNCHANGED <<im0, axis, return_im, kwargs, pyamg, im, eps0, eps, net, inlets,
                   outlets, bc, settings, conc, rate_in, rate_out, result>>

\* lines 42-49: the porosity as given, the trimming, the porosity left
Trim ==
    /\ pc = "trim"
    /\ trace' = Append(trace, "trim")
    /\ eps0' = OriginalPorosity(im)
    /\ \E t \in TrimOutcomes(im, axis) :
          /\ im' = t
          /\ eps' = EffectivePorosity(t)
    /\ pc' = "network"
    /\ UNCHANGED <<im0, axis, return_im, kwargs, pyamg, net, inlets, outlets, bc,
                   settings, conc, rate_in, rate_out, result>>

\* lines 51-56: the network, the phase and the algorithm; the network
\* library refuses a template with no True voxel
BuildNetwork ==
    /\ pc = "network"
    /\ trace' = Append(trace, "network")
    /\ IF im.vox = {}
       THEN /\ pc' = "error_lib"
            /\ UNCHANGED <<net, bc>>
       ELSE /\ net' = CubicTemplate(im)
            /\ bc' = [p \in Pores(net') |-> NaN]
            /\ pc' = "bc"
    /\ UNCHANGED <<im0, axis, return_im, kwargs, pyamg, im, eps0, eps, inlets,
                   outlets, settings, conc, rate_in, rate_out, result>>

\* lines 58-64: the inlet and outlet masks and the two boundary conditions
SetBoundaryConditions ==
    /\ pc = "bc"
    /\ trace' = Append(trace, "bc")
    /\ inlets' = InletMask(net, axis)
    /\ outlets' = OutletMask(net, im, axis)
    /\ bc' = SetValueBC(SetValueBC(bc, inlets', C_in), outlets', C_out)
    /\ pc' = "settings"
    /\ UNCHANGED <<im0, axis, return_im, kwargs, pyamg, im, eps0, eps, net,
                   settings, conc, rate_in, rate_out, result>>

\* lines 66-72: the caller's solver, or the default one
ConfigureSolver ==
    /\ pc = "settings"
    /\ \E kw \in KwargsChoices, found \in BOOLEAN :
          /\ kwargs' = kw
          /\ pyamg' = found
          /\ settings' = SolverSettings(settings, kw, found)
    /\ pc' = "run"
    /\ UNCHANGED <<trace, im0, axis, return_im, im, eps0, eps, net, inlets,
                   outlets, bc, conc, rate_in, rate_out, result>>

\* line 73: fd.run(). A solver whose package is missing fails as it is
\* loaded; a system without a unique solution fails or yields nan
Run ==
    /\ pc = "run"
    /\ trace' = Append(trace, "run")
    /\ IF settings["solver_family"] = "pyamg" /\ ~pyamg
       THEN /\ pc' = "error_lib"
            /\ UNCHANGED conc
       ELSE IF Singular(net, bc)
       THEN \/ /\ pc' = "error_lib"
               /\ UNCHANGED conc
            \/ /\ pc' = "rates"
               /\ conc' = [p \in Pores(net) |-> NaN]
       ELSE /\ pc' = "rates"
            /\ conc' \in SolverOutcomes(net, bc, settings)
    /\ UNCHANGED <<im0, axis, return_im, kwargs, pyamg, im, eps0, eps, net, inlets,
                   outlets, bc, settings, rate_in, rate_out, result>>

\* lines 75-78: the two flows and their comparison
CheckRates ==
    /\ pc = "rates"
    /\ trace' = Append(trace, "rates")
    /\ rate_out' = Rate(net, conc, outlets)
    /\ rate_in' = Rate(net, conc, inlets)
    /\ pc' = IF ~RatesMatch(rate_out', rate_in') THEN "error_rate" ELSE "reduce"
    /\ UNCHANGED <<im0, axis, return_im, kwargs, pyamg, im, eps0, eps, net, inlets,
                   outlets, bc, settings, conc, result>>

\* lines 79-103: the scalars, the image when asked for, the return
Reduce ==
    /\ pc = "reduce"
    /\ trace' = Append(trace, "reduce")
    /\ \E r \in BOOLEAN :
          /\ return_im' = r
          /\ LET Deff == EffectiveDiffusivity(rate_in, im, axis)
             IN  result' = <<[tortuosity |-> FDiv(eps, Deff),
                              formation_factor |-> FDiv(One, Deff),
                              original_porosity |-> eps0,
                              effective_porosity |-> eps,
                              image |-> IF r THEN <<ConcentrationImage(im, net, conc)>>
                                        ELSE <<>>]>>
    /\ pc' = "done"
    /\ UNCHANGED <<im0, axis, kwargs, pyamg, im, eps0, eps, net, inlets, outlets,
                   bc, settings, conc, rate_in, rate_out>>

Next ==
    \/ ValidateAxis
    \/ Trim
    \/ BuildNetwork
    \/ SetBoundaryConditions
    \/ ConfigureSolver
    \/ Run
    \/ CheckRates
    \/ Reduce

Spec == Init /\ [][Next]_vars

\* ------------------------------------------------------------------ claims
ValidAxis == axis \in 0..(Ndim(im0) - 1)

\* the voxel a pore stands for, read off its coordinates
PoreVoxel(p) == [k \in 1..Ndim(im0) |-> (net.coords[p][k][1] - 1) \div 2]

\* the two flows agree within numpy's tolerance
FlowsAgree ==
    /\ rate_in # NaN
    /\ rate_out # NaN
    /\ AllClose(RNeg(rate_out), rate_in)

\* C1: with an axis greater than ndim - 1 the call is either still before
\* the axis check or has raised from it; no trimming, network, boundary
\* condition, solve or result exists on that call
C1_AxisTooHighRaisesFirst ==
    axis > Ndim(im0) - 1 =>
        /\ \/ pc = "validate" /\ trace = <<>>
           \/ pc = "error_axis" /\ trace = <<"validate">>
        /\ im = im0
        /\ eps0 = NaN
        /\ net = NoNetwork
        /\ bc = <<>>
        /\ conc = <<>>
        /\ result = <<>>

C1_Witness == pc = "error_axis" /\ axis = Ndim(im0) /\ im0.vox # {}

\* C2: once the flows are computed, the call has raised exactly when they do
\* not agree within tolerance; a raised call holds no result and a result
\* exists only with agreeing flows
C2_MismatchRaises ==
    /\ pc \in {"reduce", "done", "error_rate"} => (pc = "error_rate" <=> ~FlowsAgree)
    /\ pc = "error_rate" => result = <<>>
    /\ result # <<>> => FlowsAgree

C2_Witness == pc = "error_rate" /\ rate_in # NaN /\ rate_out # NaN /\ ValidAxis

\* C3: a fully-open slab (here with distinct inlet and outlet layers) solved
\* exactly along a valid axis returns a tortuosity of 1.0 within tolerance
C3_OpenSlabTortuosityIsOne ==
    (/\ pc = "done"
     /\ ValidAxis
     /\ im0.vox = AllCoords(im0.shape)
     /\ ShapeAt(im0, axis) >= 2
     /\ conc = ExactSolution(net, bc))
        => AllClose(result[1].tortuosity, One)

\* C4: when the trimming removed no voxel, the returned effective porosity
\* equals the returned original porosity, the fraction of True voxels
C4_PercolatingPorosityEqual ==
    (pc = "done" /\ im.vox = im0.vox) =>
        /\ result[1].effective_porosity = result[1].original_porosity
        /\ result[1].original_porosity =
               Rat(Cardinality(im0.vox), Size(im0.shape))

C4_Witness ==
    /\ pc = "done"
    /\ ValidAxis
    /\ im.vox = im0.vox
    /\ im0.vox # AllCoords(im0.shape)

\* C5: with return_im the returned image has the input's shape, holds each
\* pore's concentration at the pore's voxel and zero at every voxel outside
\* the network; without return_im the image is None
C5_ReturnedImage ==
    pc = "done" =>
        IF return_im
        THEN /\ Len(result[1].image) = 1
             /\ LET img == result[1].image[1]
                IN  /\ img.shape = im0.shape
                    /\ DOMAIN img.val = AllCoords(im0.shape)
                    /\ {PoreVoxel(p) : p \in Pores(net)} = im.vox
                    /\ \A p \in Pores(net) : img.val[PoreVoxel(p)] = conc[p]
                    /\ \A c \in AllCoords(im0.shape) \ im.vox : img.val[c] = Zero
        ELSE result[1].image = <<>>

C5_Witness ==
    /\ pc = "done"
    /\ return_im
    /\ ValidAxis
    /\ im.vox # im0.vox
    /\ \E p \in Pores(net) : conc[p] \notin {Zero, One}

\* C6: the returned scalars are Deff = rate_in / ((A / L) * (C_in - C_out)),
\* formation_factor = 1 / Deff and tortuosity = effective_porosity / Deff
\* = formation_factor * effective_porosity, the porosity being the trimmed
\* image's
C6_ScalarAlgebra ==
    pc = "done" =>
        LET L == im0.shape[WrapIndex(axis, Ndim(im0)) + 1]
            A == Rat(Size(im0.shape), L)
            Deff == RDiv(rate_in, RMul(Rat(A[1], A[2] * L), FromInt(C_in - C_out)))
            r == result[1]
        IN  /\ r.effective_porosity = Rat(Cardinality(im.vox), Size(im0.shape))
            /\ r.formation_factor = FDiv(One, Deff)
            /\ r.tortuosity = FDiv(r.effective_porosity, Deff)
            /\ r.tortuosity = FMul(r.formation_factor, r.effective_porosity)

C6_Witness ==
    /\ pc = "done"
    /\ ValidAxis
    /\ eps # eps0
    /\ IsFinite(result[1].tortuosity)
    /\ result[1].tortuosity # Zero

\* C7: when the solve is about to run, every keyword option the caller gave
\* is in the solver's settings with the caller's value
C7_KwargsPassedThrough ==
    pc = "run" => \A k \in DOMAIN kwargs : settings[k] = kwargs[k]

Pipeline == <<"validate", "trim", "network", "bc", "run", "rates", "reduce">>

\* C8: the stages run so far are a prefix of the one pipeline order, each at
\* most once; a stage past the axis check has run only when the check did not
\* raise, the reduction only with agreeing flows; a finished call ran them
\* all, and after an error exit nothing more can run
C8_LinearPipeline ==
    /\ Len(trace) <= Len(Pipeline)
    /\ trace = SubSeq(Pipeline, 1, Len(trace))
    /\ Len(trace) >= 2 => axis <= Ndim(im0) - 1
    /\ Len(trace) = 7 => FlowsAgree
    /\ pc = "done" <=> trace = Pipeline
    /\ pc = "error_axis" => trace = SubSeq(Pipeline, 1, 1)
    /\ pc = "error_rate" => trace = SubSeq(Pipeline, 1, 6)
    /\ pc \in {"error_axis", "error_rate", "error_lib", "done"} => ~ENABLED Next

C8_Witness == pc = "done" /\ trace = Pipeline /\ ValidAxis /\ im.vox # im0.vox

\* C9: with no solver_family given, the settings at the solve are type cg
\* with family scipy, or family pyamg on a system that has pyamg
C9_DefaultSolverAvailable ==
    (pc = "run" /\ "solver_family" \notin DOMAIN kwargs) =>
        /\ settings["solver_type"] = "cg"
        /\ \/ settings["solver_family"] = "scipy"
           \/ settings["solver_family"] = "pyamg" /\ pyamg

\* C10: past the axis check the axis is a dimension of the image, and with a
\* length of at least 2 along it the inlets are the pores of the first
\* layer, the outlets those of the last layer, and no pore is both
C10_ValidatedAxisIndexesDimension ==
    pc \notin {"validate", "error_axis"} =>
        /\ axis \in 0..(Ndim(im0) - 1)
        /\ (inlets # <<>> /\ im0.shape[axis + 1] >= 2) =>
               \A p \in Pores(net) :
                   /\ inlets[p] <=> PoreVoxel(p)[axis + 1] = 0
                   /\ outlets[p] <=> PoreVoxel(p)[axis + 1] = im0.shape[axis + 1] - 1
                   /\ ~(inlets[p] /\ outlets[p])

====
